---- MODULE Spec2Model ----
(***************************************************************************)
(* Model of the face-capture client: the FaceCaptureApp controller of      *)
(* src/app.js (camera lifecycle, capture, upload, result and preview       *)
(* views, object URLs).                                                    *)
(*                                                                         *)
(* JavaScript handlers run to completion, so one action is one handler or  *)
(* one continuation of an async function, from an event or a promise       *)
(* settlement to the next await.                                           *)
(***************************************************************************)
EXTENDS Integers, FiniteSets, Sequences, TLC

\* ------------------------------------------------------------------ bounds
\* getUserMedia requests issued in one run (stream ids are request ids).
MaxRequests == 2
\* Captures that pass the readiness check in one run (blob ids are capture numbers).
MaxCaptures == 2
\* Video and container sizes of the crop geometry range over 1..MaxDim and the
\* two sides of the ellipse.
MaxDim == 4
\* Fetch events the worker receives in one run (they overlap freely).
MaxFetches == 3

\* ------------------------------------------------------- program constants
ellipseWidth == 307
ellipseHeight == 407
SetupCanvasWidth == 800
SetupCanvasHeight == 1000
\* The canvas element's size before any script sets it (the HTML default).
DefaultCanvasWidth == 300
DefaultCanvasHeight == 150
\* The native size the stream reports once its metadata has loaded.
IdealWidth == 1280
IdealHeight == 720

\* The null reference (currentStream = null, apiUrl = null, no handler).
Null == 0
\* window.location.origin, the only value apiUrl ever takes besides null.
Origin == 1

RequestIds == 1..MaxRequests
BlobIds == 1..MaxCaptures
\* Object URLs of image blobs: every capture creates at most two (result view,
\* then preview).
UrlIds == 1..(2 * MaxCaptures)

VARIABLES
    consentVisible,   \* consentScreen does not carry the class 'hidden'
    facingMode,       \* this.facingMode
    currentStream,    \* this.currentStream: a stream id or Null
    srcObject,        \* this.dom.video.srcObject
    requests,         \* getUserMedia calls: id -> "none" | "pending" | "resolved" | "rejected"
    reqFacing,        \* the facingMode constraint each call was made with
    liveTracks,       \* streams whose tracks are live (not stopped)
    issue,            \* observation of the latest getUserMedia call, taken at the call
    notice,           \* the latest alert() shown to the user
    videoWidth,       \* this.dom.video.videoWidth
    videoHeight,      \* this.dom.video.videoHeight
    metaPending,      \* a loadedmetadata event is still to come for srcObject
    canvas,           \* this.dom.canvas: [w, h, image]; image is the blob id drawn, 0 when blank
    captureBtnDisabled, \* this.dom.captureBtn.disabled
    loading,          \* the loading indicator: "hidden" or the message shown
    toBlob,           \* blobs whose toBlob callback has not run yet
    nCaptures,        \* captures that serialized a blob so far; the latest blob's id
    blobSize,         \* blob id -> the size of the bitmap toBlob copied, <<0, 0>> before
    health,           \* the health GET of detectApiUrl: "pending" | "done"
    healthGets,       \* health GET requests issued so far
    apiUrl,           \* this.apiUrl
    apiStatus,        \* the status indicator: [shown, url]; shown is "none" before it exists
    inFlight,         \* blobs whose upload POST is in flight
    posts,            \* blob id -> POST requests issued for it
    nUrls,            \* object URLs of image blobs created so far (ids 1..nUrls)
    revoked,          \* url id -> calls of URL.revokeObjectURL on it
    reportUrl,        \* the object URL of the latest text report: [created, revoked]
    analysis,         \* the result view: [visible, close, retry, save, blob]
    preview,          \* the preview view: [visible, url, blob]
    sizes,            \* capturePhoto's inputs: [Vw, Vh] of the video, [Cw, Ch] of videoRect
    crop,             \* the rectangles capturePhoto computed from sizes, NoCrop before
    swState,          \* the worker's lifecycle and the position of its install/activate handler
    cacheNames,       \* caches.keys(): the names of the cache stores that exist
    entries,          \* cache name -> the request URLs it holds a response for
    keysSeen,         \* activate: the cacheNames array caches.keys() resolved with
    pendingDeletes,   \* activate: caches.delete calls that have not resolved yet
    skipWaitingCalls, \* calls of self.skipWaiting()
    fetches,          \* fetch event id -> [stage, request, respondWith, net, response, put]
    nFetches          \* fetch events dispatched so far

cameraVars == <<consentVisible, facingMode, currentStream, srcObject, requests,
                reqFacing, liveTracks, issue>>
videoVars == <<videoWidth, videoHeight, metaPending>>
captureVars == <<captureBtnDisabled, loading, toBlob, nCaptures, blobSize>>
apiVars == <<health, healthGets, apiUrl, apiStatus>>
uploadVars == <<inFlight, posts>>
urlVars == <<nUrls, revoked, reportUrl>>
viewVars == <<analysis, preview>>
geometryVars == <<sizes, crop>>
cacheVars == <<cacheNames, entries>>
lifecycleVars == <<swState, keysSeen, pendingDeletes, skipWaitingCalls>>
workerVars == <<lifecycleVars, cacheVars, fetches, nFetches>>

vars == <<cameraVars, notice, videoVars, canvas, captureVars, apiVars,
          uploadVars, urlVars, viewVars, geometryVars, workerVars>>
controllerVars == <<cameraVars, notice, videoVars, canvas, captureVars, apiVars,
                    uploadVars, urlVars, viewVars>>

NoNotice == [kind |-> "none", detail |-> ""]
CameraNotice == [kind |-> "camera", detail |-> ""]
NotReadyNotice == [kind |-> "notReady", detail |-> ""]
CaptureErrorNotice == [kind |-> "captureError", detail |-> ""]
NoApiNotice == [kind |-> "noApi", detail |-> ""]
ReportSavedNotice == [kind |-> "reportSaved", detail |-> ""]

NoIssue == [req |-> Null, held |-> Null, cur |-> Null, live |-> {}]

NoCrop == [computed |-> FALSE]

\* ----------------------------------------------- cache worker: constants
\* An origin other than location.origin.
OtherOrigin == 2

\* A URL is its origin and its text after the origin, cut into pieces so that
\* the text '/upload' occurs in it only as a whole piece.
Url(origin, text) == [origin |-> origin, text |-> text]

\* What a cache lookup resolves with when nothing matches.
Undefined == Url(Null, <<>>)

CACHE_NAME == "face-capture-v2"
StaleNames == {"face-capture-v1"}
CacheNames == {CACHE_NAME} \cup StaleNames

IndexUrl == Url(Origin, <<"/index.html">>)
\* The install list without the document the offline fallback looks up.
STATIC_CACHE_NoIndex == { Url(Origin, <<"/">>), Url(Origin, <<"/style.css">>) }

STATIC_CACHE ==
    { Url(Origin, <<"/">>), IndexUrl, Url(Origin, <<"/style.css">>),
      Url(Origin, <<"/app.js">>), Url(Origin, <<"/manifest.json">>),
      Url(Origin, <<"/icons/icon-512x512.png">>) }

OFFLINE_URL == IndexUrl

\* The requests the page can make: the health GET of detectApiUrl, the upload
\* POST of analyzePhoto, and GETs of a page asset, of the upload path, of the
\* page with the text '/upload' in its query string, and of another origin.
HealthUrl == Url(Origin, <<"/api/health">>)
UploadUrl == Url(Origin, <<"/upload">>)
IndexFromUploadUrl == Url(Origin, <<"/index.html", "?from=", "/upload">>)
CdnUrl == Url(OtherOrigin, <<"/lib.js">>)
Request(method, url) == [method |-> method, url |-> url]
NoRequest == Request("none", Undefined)
Requests ==
    { Request("GET", u) : u \in {IndexUrl, HealthUrl, UploadUrl, IndexFromUploadUrl, CdnUrl} }
        \cup { Request("POST", UploadUrl) }

\* networkResponse.status: OK, a success status other than 200, a failure status.
StatusOk == 200
StatusNoContent == 204
StatusNotFound == 404
Statuses == {StatusOk, StatusNoContent, StatusNotFound}

FetchIds == 1..MaxFetches
NoResponse == [from |-> "none", url |-> Undefined, status |-> 0]
CachedResponse(url) == [from |-> "cache", url |-> url, status |-> StatusOk]
NetworkResponse(url, status) == [from |-> "network", url |-> url, status |-> status]
\* respondWith settled with undefined: the caller sees a network error.
UndefinedResponse == [from |-> "undefined", url |-> Undefined, status |-> 0]
NoFetch == [stage |-> "idle", request |-> NoRequest, respondWith |-> FALSE,
            net |-> 0, response |-> NoResponse, put |-> "none"]

\* The worker script is not running.
WorkerIdle ==
    /\ swState = "parsed"
    /\ cacheNames = {}
    /\ entries = [n \in CacheNames |-> {}]
    /\ keysSeen = {}
    /\ pendingDeletes = {}
    /\ skipWaitingCalls = 0
    /\ fetches = [i \in FetchIds |-> NoFetch]
    /\ nFetches = 0

InitController ==
    /\ consentVisible = TRUE
    /\ facingMode = "user"
    /\ currentStream = Null
    /\ srcObject = Null
    /\ requests = [r \in RequestIds |-> "none"]
    /\ reqFacing = [r \in RequestIds |-> "user"]
    /\ liveTracks = {}
    /\ issue = NoIssue
    /\ notice = NoNotice
    /\ videoWidth = 0
    /\ videoHeight = 0
    /\ metaPending = FALSE
    /\ canvas = [w |-> DefaultCanvasWidth, h |-> DefaultCanvasHeight, image |-> 0]
    /\ captureBtnDisabled = FALSE
    /\ loading = "hidden"
    /\ toBlob = {}
    /\ nCaptures = 0
    /\ blobSize = [b \in BlobIds |-> <<0, 0>>]
    /\ health = "pending"
    /\ healthGets = 1
    /\ apiUrl = Null
    /\ apiStatus = [shown |-> "none", url |-> Null]
    /\ inFlight = {}
    /\ posts = [b \in BlobIds |-> 0]
    /\ nUrls = 0
    /\ revoked = [u \in UrlIds |-> 0]
    /\ reportUrl = [created |-> 0, revoked |-> 0]
    /\ analysis = [visible |-> FALSE, close |-> Null, retry |-> Null, save |-> FALSE, blob |-> 0]
    /\ preview = [visible |-> FALSE, url |-> Null, blob |-> 0]

Init ==
    /\ InitController
    /\ sizes = [Vw |-> IdealWidth, Vh |-> IdealHeight, Cw |-> ellipseWidth, Ch |-> ellipseHeight]
    /\ crop = NoCrop
    /\ WorkerIdle

\* ------------------------------------------------------------------ camera

\* initCamera with the stop of the old tracks left out.
InitCameraStop_NoStop(cur, live) == [cur |-> Null, live |-> live]

\* initCamera, lines 157-161: stop the tracks of the current stream, if any,
\* and clear the field.
InitCameraStop(cur, live) ==
    [cur |-> Null, live |-> IF cur # Null THEN live \ {cur} ELSE live]

\* The facing mode after the toggle of switchCamera.
Flip(mode) == IF mode = "user" THEN "environment" ELSE "user"

\* initCamera up to its await: stop, then call getUserMedia with the facing
\* mode `mode`.  The call is request r, the next unused id.
InitCameraCall(mode) ==
    \E r \in RequestIds :
        /\ requests[r] = "none"
        /\ \A q \in RequestIds : q < r => requests[q] # "none"
        /\ LET s == InitCameraStop(currentStream, liveTracks) IN
            /\ currentStream' = s.cur
            /\ liveTracks' = s.live
            /\ issue' = [req |-> r, held |-> currentStream, cur |-> s.cur, live |-> s.live]
        /\ requests' = [requests EXCEPT ![r] = "pending"]
        /\ reqFacing' = [reqFacing EXCEPT ![r] = mode]

\* Click on acceptConsent: handleConsentAccept.  The button is on the consent
\* screen, which line 151 hides; the camera controls are in mainApp, which line
\* 152 shows.
handleConsentAccept ==
    /\ consentVisible
    /\ consentVisible' = FALSE
    /\ InitCameraCall(facingMode)
    /\ UNCHANGED <<facingMode, srcObject, notice, videoVars, canvas, captureVars,
                   apiVars, uploadVars, urlVars, viewVars>>

\* Click on switchCamera: flip the facing mode, then initCamera.
switchCamera ==
    /\ ~consentVisible
    /\ facingMode' = Flip(facingMode)
    /\ InitCameraCall(Flip(facingMode))
    /\ UNCHANGED <<consentVisible, srcObject, notice, videoVars, canvas, captureVars,
                   apiVars, uploadVars, urlVars, viewVars>>

\* getUserMedia request r resolves: the browser has opened stream r, and the
\* continuation of initCamera stores it (lines 172-176).  Requests settle in
\* any order.  A new srcObject has no native size until its metadata loads.
GumResolve(r) ==
    /\ requests[r] = "pending"
    /\ requests' = [requests EXCEPT ![r] = "resolved"]
    /\ liveTracks' = liveTracks \cup {r}
    /\ currentStream' = r
    /\ srcObject' = r
    /\ videoWidth' = 0
    /\ videoHeight' = 0
    /\ metaPending' = TRUE
    /\ UNCHANGED <<consentVisible, facingMode, reqFacing, issue, notice, canvas,
                   captureVars, apiVars, uploadVars, urlVars, viewVars>>

\* getUserMedia request r rejects: the catch of initCamera alerts.
GumReject(r) ==
    /\ requests[r] = "pending"
    /\ requests' = [requests EXCEPT ![r] = "rejected"]
    /\ notice' = CameraNotice
    /\ UNCHANGED <<consentVisible, facingMode, currentStream, srcObject,
                   reqFacing, liveTracks, issue, videoVars, canvas, captureVars,
                   apiVars, uploadVars, urlVars, viewVars>>

\* loadedmetadata on the video element: the stream in srcObject reports its
\* native size, and the handler set at line 176 runs setupCanvas.
setupCanvas ==
    canvas' = [w |-> SetupCanvasWidth, h |-> SetupCanvasHeight, image |-> 0]

LoadedMetadata ==
    /\ metaPending
    /\ srcObject \in liveTracks
    /\ metaPending' = FALSE
    /\ videoWidth' = IdealWidth
    /\ videoHeight' = IdealHeight
    /\ setupCanvas
    /\ UNCHANGED <<cameraVars, notice, captureVars, apiVars, uploadVars, urlVars, viewVars>>

\* ------------------------------------------------------ endpoint discovery

HealthOutcomes ==
    {[net |-> "error", ok |-> FALSE, body |-> "none"]}
    \cup {[net |-> "ok", ok |-> k, body |-> b] : k \in BOOLEAN, b \in {"online", "other", "text"}}

\* The body's status field ignored: any success response accepted.
HealthAccepts_AnyOk(o) == o.net = "ok" /\ o.ok

\* detectApiUrl, lines 87-95: does the response make the origin the endpoint?
\* (A body that is not JSON makes response.json() throw into the catch.)
HealthAccepts(o) == o.net = "ok" /\ o.ok /\ o.body = "online"

\* showApiStatus, lines 109-122: what the indicator shows.
showApiStatus(connected, url) ==
    IF connected THEN [shown |-> "connected", url |-> url]
    ELSE [shown |-> "notFound", url |-> Null]

\* The health GET issued by the constructor (line 47, line 79) settles: the
\* rest of detectApiUrl.  No path issues another GET.
HealthComplete(o) ==
    /\ health = "pending"
    /\ health' = "done"
    /\ IF HealthAccepts(o)
         THEN apiUrl' = Origin /\ apiStatus' = showApiStatus(TRUE, Origin)
         ELSE apiUrl' = apiUrl /\ apiStatus' = showApiStatus(FALSE, Null)
    /\ UNCHANGED <<cameraVars, notice, videoVars, canvas, captureVars, uploadVars,
                   urlVars, viewVars, healthGets>>

\* ----------------------------------------------------------------- capture

\* capturePhoto, line 206: the readiness check.
VideoReady(w, h) == w # 0 /\ h # 0

\* capturePhoto with the control disabled and the indicator shown before the
\* readiness check instead of after it.
CaptureNotReady_DisablesFirst ==
    /\ notice' = NotReadyNotice
    /\ captureBtnDisabled' = TRUE
    /\ loading' = "capture"
    /\ UNCHANGED <<cameraVars, videoVars, canvas, toBlob, nCaptures, blobSize, apiVars, uploadVars,
                   urlVars, viewVars>>

\* capturePhoto, lines 206-209: the video has no native size yet.
CaptureNotReady ==
    /\ notice' = NotReadyNotice
    /\ UNCHANGED <<cameraVars, videoVars, canvas, captureVars, apiVars, uploadVars,
                   urlVars, viewVars>>

\* capturePhoto with lines 249-250 left out: the frame is drawn on the canvas
\* at whatever size it has.
OutputCanvas_NoResize(c, b) == [c EXCEPT !.image = b]

\* capturePhoto, lines 249-279: the canvas sized to the ellipse, cleared, and
\* the frame of capture b drawn on it.
OutputCanvas(c, b) == [w |-> ellipseWidth, h |-> ellipseHeight, image |-> b]

\* capturePhoto with line 212 left out: the control stays enabled.
CaptureStart_NoDisable ==
    /\ nCaptures < MaxCaptures
    /\ captureBtnDisabled' = captureBtnDisabled
    /\ loading' = "capture"
    /\ nCaptures' = nCaptures + 1
    /\ canvas' = OutputCanvas(canvas, nCaptures + 1)
    /\ blobSize' = [blobSize EXCEPT ![nCaptures + 1] = <<canvas'.w, canvas'.h>>]
    /\ toBlob' = toBlob \cup {nCaptures + 1}
    /\ UNCHANGED <<cameraVars, notice, videoVars, apiVars, uploadVars, urlVars, viewVars>>

\* capturePhoto, lines 212-286: disable the control, size the canvas to the
\* ellipse, draw, and hand the canvas to toBlob, which copies the bitmap during
\* the call and serializes the copy later.
CaptureStart ==
    /\ nCaptures < MaxCaptures
    /\ captureBtnDisabled' = TRUE
    /\ loading' = "capture"
    /\ nCaptures' = nCaptures + 1
    /\ canvas' = OutputCanvas(canvas, nCaptures + 1)
    /\ blobSize' = [blobSize EXCEPT ![nCaptures + 1] = <<canvas'.w, canvas'.h>>]
    /\ toBlob' = toBlob \cup {nCaptures + 1}
    /\ UNCHANGED <<cameraVars, notice, videoVars, apiVars, uploadVars, urlVars, viewVars>>

\* capturePhoto, lines 288-293: an exception inside the try (thrown by the
\* drawing calls, after the canvas was sized and cleared).
CaptureThrow ==
    /\ captureBtnDisabled' = FALSE
    /\ loading' = "hidden"
    /\ canvas' = [w |-> ellipseWidth, h |-> ellipseHeight, image |-> 0]
    /\ notice' = CaptureErrorNotice
    /\ UNCHANGED <<cameraVars, videoVars, toBlob, nCaptures, blobSize, apiVars, uploadVars,
                   urlVars, viewVars>>

\* Click on captureBtn (a control of mainApp).  A disabled button dispatches no
\* click.
capturePhoto ==
    /\ ~consentVisible
    /\ ~captureBtnDisabled
    /\ IF VideoReady(videoWidth, videoHeight)
         THEN CaptureStart \/ CaptureThrow
         ELSE CaptureNotReady

\* ------------------------------------------------------------------ upload

\* analyzePhoto with the endpoint check left out.
HasEndpoint_Always(url) == TRUE

\* analyzePhoto, line 301: is there an endpoint to post to?
HasEndpoint(url) == url # Null

\* The toBlob callback of blob b: analyzePhoto up to its first await (lines
\* 301-320).
analyzePhoto(b) ==
    /\ b \in toBlob
    /\ toBlob' = toBlob \ {b}
    /\ IF HasEndpoint(apiUrl)
         THEN /\ loading' = "analyze"
              /\ inFlight' = inFlight \cup {b}
              /\ posts' = [posts EXCEPT ![b] = @ + 1]
              /\ UNCHANGED <<captureBtnDisabled, notice>>
         ELSE /\ loading' = "hidden"
              /\ captureBtnDisabled' = FALSE
              /\ notice' = NoApiNotice
              /\ UNCHANGED <<inFlight, posts>>
    /\ UNCHANGED <<cameraVars, videoVars, canvas, nCaptures, blobSize, apiVars, urlVars, viewVars>>

\* What the upload POST can come back with.  body: "text" is not JSON,
\* "jsonNoErro" an object without the field erro, "jsonErroEmpty" one whose erro
\* is the empty string, "jsonErro" one whose erro is a non-empty string.
\* render: how showAnalysisResults ends when it is reached: "ok", "failBuild"
\* (an exception before the handlers are set), "failWire" (an exception at line
\* 435, after closeAnalysis got its handler: the action buttons are missing
\* from the parsed content).
Bodies == {"text", "jsonNoErro", "jsonErroEmpty", "jsonErro"}
Renders == {"ok", "failBuild", "failWire"}

\* The erro field ignored.
ErroTruthy_Never(body) == FALSE

\* JavaScript truthiness of the body's erro field (lines 327 and 335).
ErroTruthy(body) == body = "jsonErro"

\* The details without the JSON extraction: always the raw text.
ErrorDetails_RawOnly(body) == "raw"

\* analyzePhoto, lines 324-328: the details of a non-success response.
ErrorDetails(body) ==
    IF body = "text" THEN "raw"
    ELSE IF ErroTruthy(body) THEN "erro" ELSE "serialized"

\* analyzePhoto, lines 322-337: does the response throw, and with what message?
UploadError(o) ==
    IF o.net = "error" THEN [thrown |-> TRUE, kind |-> "analysis", detail |-> "network"]
    ELSE IF ~o.ok THEN [thrown |-> TRUE, kind |-> "analysisHttp", detail |-> ErrorDetails(o.body)]
    ELSE IF o.body = "text" THEN [thrown |-> TRUE, kind |-> "analysis", detail |-> "parse"]
    ELSE IF ErroTruthy(o.body) THEN [thrown |-> TRUE, kind |-> "analysis", detail |-> "erro"]
    ELSE [thrown |-> FALSE, kind |-> "none", detail |-> ""]

Outcomes ==
    {[net |-> "error", ok |-> FALSE, body |-> "none", render |-> "none"]}
    \cup {[net |-> "ok", ok |-> FALSE, body |-> b, render |-> "none"] : b \in Bodies}
    \cup {[net |-> "ok", ok |-> TRUE, body |-> b, render |-> "none"] : b \in {"text", "jsonErro"}}
    \cup {[net |-> "ok", ok |-> TRUE, body |-> b, render |-> r] :
            b \in {"jsonNoErro", "jsonErroEmpty"}, r \in Renders}

\* ------------------------------------------------------- views, object URLs
\* The page as the view functions see it: ui = [nUrls, revoked, analysis, preview].

\* URL.revokeObjectURL(u).
Revoke(ui, u) == [ui EXCEPT !.revoked[u] = @ + 1]

\* The page holds previewContainer, previewImage, downloadBtn and retryBtn (the
\* minimal preview of the specification, section 4.1); the page's markup is not
\* among the sources.
PreviewElements == TRUE

\* showPreview, lines 527-552: without the elements, return; otherwise a new
\* object URL, shown in the preview view and captured by the retryBtn handler.
showPreview(ui, blob) ==
    IF ~PreviewElements THEN ui
    ELSE LET u == ui.nUrls + 1 IN
         [ui EXCEPT !.nUrls = u,
                    !.preview = [visible |-> TRUE, url |-> u, blob |-> blob]]

\* showAnalysisResults, lines 380-445.
showAnalysisResults(ui, blob, render) ==
    LET u == ui.nUrls + 1
        made == [ui EXCEPT !.nUrls = u]
    IN  IF render = "failBuild"
          THEN showPreview(
                   Revoke([made EXCEPT !.analysis = [visible |-> TRUE, close |-> Null,
                                                     retry |-> Null, save |-> FALSE,
                                                     blob |-> 0]], u),
                   blob)
        ELSE IF render = "failWire"
          THEN showPreview(
                   Revoke([made EXCEPT !.analysis = [visible |-> TRUE, close |-> u,
                                                     retry |-> Null, save |-> FALSE,
                                                     blob |-> blob]], u),
                   blob)
        ELSE [made EXCEPT !.analysis = [visible |-> TRUE, close |-> u, retry |-> u,
                                        save |-> TRUE, blob |-> blob]]

\* _hideAnalysisContainer, lines 465-468.
hideAnalysisContainer(ui, u) ==
    LET hidden == [ui EXCEPT !.analysis.visible = FALSE] IN
    IF u # Null THEN Revoke(hidden, u) ELSE hidden

\* The retryBtn handler of showPreview, lines 549-552.
retryPreview(ui, u) ==
    Revoke([ui EXCEPT !.preview.visible = FALSE], u)

Ui == [nUrls |-> nUrls, revoked |-> revoked, analysis |-> analysis, preview |-> preview]

SetUi(ui) ==
    /\ nUrls' = ui.nUrls
    /\ revoked' = ui.revoked
    /\ analysis' = ui.analysis
    /\ preview' = ui.preview

\* analyzePhoto without its finally block: the control stays disabled and the
\* indicator shown after the upload settled.
UploadComplete_NoFinally(b, o) ==
    /\ b \in inFlight
    /\ inFlight' = inFlight \ {b}
    /\ LET e == UploadError(o) IN
        IF e.thrown
          THEN /\ notice' = [kind |-> e.kind, detail |-> e.detail]
               /\ SetUi(showPreview(Ui, b))
          ELSE /\ notice' = notice
               /\ SetUi(showAnalysisResults(Ui, b, o.render))
    /\ UNCHANGED <<cameraVars, videoVars, canvas, captureVars, apiVars, posts, reportUrl>>

\* The upload POST of blob b settles with o: the rest of analyzePhoto (lines
\* 322-350).
UploadComplete(b, o) ==
    /\ b \in inFlight
    /\ inFlight' = inFlight \ {b}
    /\ LET e == UploadError(o) IN
        IF e.thrown
          THEN /\ notice' = [kind |-> e.kind, detail |-> e.detail]
               /\ SetUi(showPreview(Ui, b))
          ELSE /\ notice' = notice
               /\ SetUi(showAnalysisResults(Ui, b, o.render))
    /\ loading' = "hidden"
    /\ captureBtnDisabled' = FALSE
    /\ UNCHANGED <<cameraVars, videoVars, canvas, toBlob, nCaptures, blobSize, apiVars, posts,
                   reportUrl>>

\* Click on closeAnalysis.
closeAnalysis ==
    /\ analysis.visible
    /\ analysis.close # Null
    /\ SetUi(hideAnalysisContainer(Ui, analysis.close))
    /\ UNCHANGED <<cameraVars, notice, videoVars, canvas, captureVars, apiVars,
                   uploadVars, reportUrl>>

\* Click on retryCapture ("Nova Foto").
retryCapture ==
    /\ analysis.visible
    /\ analysis.retry # Null
    /\ SetUi(hideAnalysisContainer(Ui, analysis.retry))
    /\ UNCHANGED <<cameraVars, notice, videoVars, canvas, captureVars, apiVars,
                   uploadVars, reportUrl>>

\* Click on retryBtn of the preview view.
retryBtn ==
    /\ preview.visible
    /\ preview.url # Null
    /\ SetUi(retryPreview(Ui, preview.url))
    /\ UNCHANGED <<cameraVars, notice, videoVars, canvas, captureVars, apiVars,
                   uploadVars, reportUrl>>

\* saveAnalysisData, lines 510-520: a new object URL for the text report,
\* revoked right after the download click.  The URL never leaves the handler,
\* so the latest one is all there is to observe.
SaveReport ==
    LET made == [created |-> 1, revoked |-> 0] IN
    [made EXCEPT !.revoked = @ + 1]

\* Click on saveResults ("Salvar Análise (TXT)").
saveAnalysisData ==
    /\ analysis.visible
    /\ analysis.save
    /\ reportUrl' = SaveReport
    /\ notice' = ReportSavedNotice
    /\ UNCHANGED <<cameraVars, videoVars, canvas, captureVars, apiVars, uploadVars,
                   nUrls, revoked, viewVars>>

Next ==
    \/ handleConsentAccept /\ UNCHANGED <<geometryVars, workerVars>>
    \/ switchCamera /\ UNCHANGED <<geometryVars, workerVars>>
    \/ \E r \in RequestIds : GumResolve(r) /\ UNCHANGED <<geometryVars, workerVars>>
    \/ \E r \in RequestIds : GumReject(r) /\ UNCHANGED <<geometryVars, workerVars>>
    \/ LoadedMetadata /\ UNCHANGED <<geometryVars, workerVars>>
    \/ \E o \in HealthOutcomes : HealthComplete(o) /\ UNCHANGED <<geometryVars, workerVars>>
    \/ capturePhoto /\ UNCHANGED <<geometryVars, workerVars>>
    \/ \E b \in BlobIds : analyzePhoto(b) /\ UNCHANGED <<geometryVars, workerVars>>
    \/ \E b \in BlobIds, o \in Outcomes : UploadComplete(b, o) /\ UNCHANGED <<geometryVars, workerVars>>
    \/ closeAnalysis /\ UNCHANGED <<geometryVars, workerVars>>
    \/ retryCapture /\ UNCHANGED <<geometryVars, workerVars>>
    \/ retryBtn /\ UNCHANGED <<geometryVars, workerVars>>
    \/ saveAnalysisData /\ UNCHANGED <<geometryVars, workerVars>>

Spec == Init /\ [][Next]_vars

\* What the browser and the network are taken to guarantee: the callback
\* handed to canvas.toBlob (line 284) is called, and an upload POST that was
\* issued (line 314) settles, with any outcome.
CallbackFairness ==
    /\ \A b \in BlobIds :
          WF_vars(analyzePhoto(b) /\ UNCHANGED <<geometryVars, workerVars>>)
    /\ \A b \in BlobIds :
          WF_vars(\E o \in Outcomes :
                     UploadComplete(b, o) /\ UNCHANGED <<geometryVars, workerVars>>)

SpecFair == Init /\ [][Next]_vars /\ CallbackFairness

\* ---------------------------------------------------------- crop geometry
\* The arithmetic of capturePhoto, lines 216-279, on exact rationals <<n, d>>
\* in lowest terms with d > 0 (JavaScript computes it in IEEE doubles; the
\* rounding of the divisions is not modelled).

RECURSIVE GCD(_, _)
GCD(a, b) == IF b = 0 THEN a ELSE GCD(b, a % b)

Abs(n) == IF n < 0 THEN -n ELSE n

Frac(n, d) == LET g == GCD(Abs(n), d) IN <<n \div g, d \div g>>

QInt(n) == <<n, 1>>

QAdd(a, b) ==
    LET g == GCD(a[2], b[2])
    IN Frac(a[1] * (b[2] \div g) + b[1] * (a[2] \div g), (a[2] \div g) * b[2])

QSub(a, b) == QAdd(a, <<-b[1], b[2]>>)

QMul(a, b) ==
    LET g1 == GCD(Abs(a[1]), b[2])
        g2 == GCD(Abs(b[1]), a[2])
    IN Frac((a[1] \div g1) * (b[1] \div g2), (a[2] \div g2) * (b[2] \div g1))

\* Division by a positive rational.
QDiv(a, b) == QMul(a, <<b[2], b[1]>>)

QLe(a, b) ==
    LET g == GCD(a[2], b[2])
    IN a[1] * (b[2] \div g) <= b[1] * (a[2] \div g)

QLt(a, b) == ~QLe(b, a)

\* The test of line 224 turned around: the video is narrower than the container.
VideoWider_Flipped(videoAspect, containerAspect) == QLt(videoAspect, containerAspect)

\* Line 224: videoAspect > containerAspect.
VideoWider(videoAspect, containerAspect) == QLt(containerAspect, videoAspect)

\* No fit at all: the whole frame taken as the visible rectangle.
CoverFit_Fill(Vw, Vh, Cw, Ch) ==
    [drawWidth |-> QInt(Vw), drawHeight |-> QInt(Vh),
     offsetX |-> QInt(0), offsetY |-> QInt(0)]

\* Lines 218-234: the part of the video frame the container shows (object-fit
\* cover), in native pixels.
CoverFit(Vw, Vh, Cw, Ch) ==
    LET videoAspect == QDiv(QInt(Vw), QInt(Vh))
        containerAspect == QDiv(QInt(Cw), QInt(Ch))
    IN IF VideoWider(videoAspect, containerAspect)
         THEN LET drawHeight == QInt(Vh)
                  drawWidth == QMul(drawHeight, containerAspect)
              IN [drawWidth |-> drawWidth, drawHeight |-> drawHeight,
                  offsetX |-> QDiv(QSub(QInt(Vw), drawWidth), QInt(2)),
                  offsetY |-> QInt(0)]
         ELSE LET drawWidth == QInt(Vw)
                  drawHeight == QDiv(drawWidth, containerAspect)
              IN [drawWidth |-> drawWidth, drawHeight |-> drawHeight,
                  offsetX |-> QInt(0),
                  offsetY |-> QDiv(QSub(QInt(Vh), drawHeight), QInt(2))]

\* The radii taken in native pixels as they are, without the scale factors.
SourceRect_NoScale(fit, Cw, Ch) ==
    LET ellipseCenterX == QDiv(fit.drawWidth, QInt(2))
        ellipseCenterY == QDiv(fit.drawHeight, QInt(2))
        ellipseRadiusX == QDiv(QInt(ellipseWidth), QInt(2))
        ellipseRadiusY == QDiv(QInt(ellipseHeight), QInt(2))
    IN [scaleX |-> QDiv(fit.drawWidth, QInt(Cw)),
        scaleY |-> QDiv(fit.drawHeight, QInt(Ch)),
        sx |-> QSub(QAdd(fit.offsetX, ellipseCenterX), ellipseRadiusX),
        sy |-> QSub(QAdd(fit.offsetY, ellipseCenterY), ellipseRadiusY),
        sWidth |-> QMul(ellipseRadiusX, QInt(2)),
        sHeight |-> QMul(ellipseRadiusY, QInt(2))]

\* Lines 237-246 and 271-274: the scale factors, the ellipse's centre and
\* radii in native pixels, and the source rectangle handed to drawImage.
SourceRect(fit, Cw, Ch) ==
    LET scaleX == QDiv(fit.drawWidth, QInt(Cw))
        scaleY == QDiv(fit.drawHeight, QInt(Ch))
        ellipseCenterX == QDiv(fit.drawWidth, QInt(2))
        ellipseCenterY == QDiv(fit.drawHeight, QInt(2))
        ellipseRadiusX ==
            QMul(QMul(QDiv(QInt(ellipseWidth), QInt(2)), QDiv(QInt(Cw), QInt(Cw))), scaleX)
        ellipseRadiusY ==
            QMul(QMul(QDiv(QInt(ellipseHeight), QInt(2)), QDiv(QInt(Ch), QInt(Ch))), scaleY)
    IN [scaleX |-> scaleX, scaleY |-> scaleY,
        sx |-> QSub(QAdd(fit.offsetX, ellipseCenterX), ellipseRadiusX),
        sy |-> QSub(QAdd(fit.offsetY, ellipseCenterY), ellipseRadiusY),
        sWidth |-> QMul(ellipseRadiusX, QInt(2)),
        sHeight |-> QMul(ellipseRadiusY, QInt(2))]

Dims == (1..MaxDim) \cup {ellipseWidth, ellipseHeight}

\* capturePhoto past the readiness check, up to the drawImage call.
ComputeCrop ==
    /\ ~crop.computed
    /\ LET fit == CoverFit(sizes.Vw, sizes.Vh, sizes.Cw, sizes.Ch)
       IN crop' = [computed |-> TRUE, fit |-> fit,
                   src |-> SourceRect(fit, sizes.Cw, sizes.Ch)]
    /\ UNCHANGED <<sizes, controllerVars, workerVars>>

InitGeometry ==
    /\ InitController
    /\ sizes \in [Vw : Dims, Vh : Dims, Cw : Dims, Ch : Dims]
    /\ crop = NoCrop
    /\ WorkerIdle

NextGeometry == ComputeCrop

SpecGeometry == InitGeometry /\ [][NextGeometry]_vars

\* ------------------------------------------------------------ cache worker
\* The service worker of src/unnamed/part_000. One action is one listener
\* call or one promise continuation. The browser dispatches fetch events only
\* to the activated worker.

\* caches.open(name): the store is created when it does not exist.
Open(names, name) == names \cup {name}

\* caches.match(request): the cached response for the request's URL in any
\* store, undefined when no store holds one.
Match(names, held, url) ==
    IF \E n \in names : url \in held[n] THEN url ELSE Undefined

\* url.includes(piece)
Includes(url, piece) == \E k \in DOMAIN url.text : url.text[k] = piece

\* install, lines 18-19: waitUntil(caches.open(CACHE_NAME) ...).
InstallEvent ==
    /\ swState = "parsed"
    /\ swState' = "opening"
    /\ UNCHANGED <<keysSeen, pendingDeletes, skipWaitingCalls, cacheVars, fetches, nFetches>>

\* install, lines 20-23: the store is open, cache.addAll(STATIC_CACHE) starts.
InstallOpened ==
    /\ swState = "opening"
    /\ cacheNames' = Open(cacheNames, CACHE_NAME)
    /\ swState' = "adding"
    /\ UNCHANGED <<keysSeen, pendingDeletes, skipWaitingCalls, entries, fetches, nFetches>>

\* cache.addAll that commits whatever it fetched.
AddAll_Partial(held, fetched) == [ok |-> fetched = STATIC_CACHE, held |-> held \cup fetched]

\* cache.addAll(STATIC_CACHE), line 22: fetched is the part of the list the
\* network delivered. The batch is committed only when it is complete.
AddAll(held, fetched) ==
    [ok |-> fetched = STATIC_CACHE,
     held |-> IF fetched = STATIC_CACHE THEN held \cup fetched ELSE held]

\* install: addAll settles. A rejection skips line 25 and rejects waitUntil:
\* the install fails and the worker becomes redundant.
AddAllSettled(fetched) ==
    /\ swState = "adding"
    /\ LET r == AddAll(entries[CACHE_NAME], fetched)
       IN /\ entries' = [entries EXCEPT ![CACHE_NAME] = r.held]
          /\ swState' = IF r.ok THEN "populated" ELSE "redundant"
    /\ UNCHANGED <<keysSeen, pendingDeletes, skipWaitingCalls, cacheNames, fetches, nFetches>>

\* install, line 25: self.skipWaiting(); waitUntil resolves, the worker is installed.
SkipWaiting ==
    /\ swState = "populated"
    /\ skipWaitingCalls' = skipWaitingCalls + 1
    /\ swState' = "installed"
    /\ UNCHANGED <<keysSeen, pendingDeletes, cacheVars, fetches, nFetches>>

\* activate, lines 31-32: waitUntil(caches.keys() ...).
ActivateEvent ==
    /\ swState = "installed"
    /\ swState' = "keys"
    /\ UNCHANGED <<keysSeen, pendingDeletes, skipWaitingCalls, cacheVars, fetches, nFetches>>

\* The filter of line 36 letting no name through.
StaleAmong_None(names) == {}

\* activate, line 36: the names to delete.
StaleAmong(names) == { n \in names : n # CACHE_NAME }

\* activate, lines 32-41: caches.keys() resolved; caches.delete is called for
\* every stale name.
KeysResolved ==
    /\ swState = "keys"
    /\ keysSeen' = cacheNames
    /\ pendingDeletes' = StaleAmong(cacheNames)
    /\ swState' = "deleting"
    /\ UNCHANGED <<skipWaitingCalls, cacheVars, fetches, nFetches>>

\* One caches.delete(cacheName) resolves.
DeleteResolved(n) ==
    /\ swState = "deleting"
    /\ n \in pendingDeletes
    /\ pendingDeletes' = pendingDeletes \ {n}
    /\ cacheNames' = cacheNames \ {n}
    /\ entries' = [entries EXCEPT ![n] = {}]
    /\ UNCHANGED <<swState, keysSeen, skipWaitingCalls, fetches, nFetches>>

\* activate, line 42: Promise.all resolved, self.clients.claim().
ClientsClaim ==
    /\ swState = "deleting"
    /\ pendingDeletes = {}
    /\ swState' = "activated"
    /\ UNCHANGED <<keysSeen, pendingDeletes, skipWaitingCalls, cacheVars, fetches, nFetches>>

\* The test of lines 52-55 without its '/upload' part.
PassThrough_NoUploadTest(request) ==
    request.method # "GET" \/ request.url.origin # Origin

\* fetch, lines 52-55: the requests the listener returns from at once.
PassThrough(request) ==
    \/ request.method # "GET"
    \/ Includes(request.url, "/upload")
    \/ request.url.origin # Origin

\* fetch, lines 47-60: the listener runs for a request. It either returns
\* without respondWith (the browser then handles the request itself), or
\* calls respondWith and starts the cache lookup.
FetchEvent(i, request) ==
    /\ swState = "activated"
    /\ i = nFetches + 1
    /\ i <= MaxFetches
    /\ nFetches' = i
    /\ fetches' = [fetches EXCEPT ![i] =
          IF PassThrough(request)
            THEN [NoFetch EXCEPT !.stage = "passed", !.request = request]
            ELSE [NoFetch EXCEPT !.stage = "matching", !.request = request,
                                 !.respondWith = TRUE]]
    /\ UNCHANGED <<lifecycleVars, cacheVars>>

\* Line 63 with every lookup taken for a miss.
Hit_Never(cachedResponse) == FALSE

\* Line 63: if (cachedResponse).
Hit(cachedResponse) == cachedResponse # Undefined

\* fetch, lines 61-68: caches.match(event.request) resolved. A hit settles
\* respondWith with the cached response; a miss issues the network fetch.
MatchResolved(i) ==
    /\ fetches[i].stage = "matching"
    /\ LET cachedResponse == Match(cacheNames, entries, fetches[i].request.url)
       IN fetches' = [fetches EXCEPT ![i] =
            IF Hit(cachedResponse)
              THEN [@ EXCEPT !.stage = "responded",
                             !.response = CachedResponse(cachedResponse)]
              ELSE [@ EXCEPT !.stage = "fetching", !.net = @ + 1]]
    /\ UNCHANGED <<lifecycleVars, cacheVars, nFetches>>

\* Line 71: networkResponse.status === 200.
Storable(status) == status = StatusOk

\* fetch, lines 69-79: the network answered. For status 200 the clone is
\* handed to caches.open(...).then(put), which nothing waits for; the
\* response is returned, so respondWith settles with it now.
NetResolved(i, status) ==
    /\ fetches[i].stage = "fetching"
    /\ fetches' = [fetches EXCEPT ![i] =
          [@ EXCEPT !.stage = "responded",
                    !.response = NetworkResponse(fetches[i].request.url, status),
                    !.put = IF Storable(status) THEN "opening" ELSE "none"]]
    /\ UNCHANGED <<lifecycleVars, cacheVars, nFetches>>

\* fetch, lines 80-83: the network fetch failed; caches.match(OFFLINE_URL) starts.
NetRejected(i) ==
    /\ fetches[i].stage = "fetching"
    /\ fetches' = [fetches EXCEPT ![i] = [@ EXCEPT !.stage = "fallback"]]
    /\ UNCHANGED <<lifecycleVars, cacheVars, nFetches>>

\* fetch, line 83: the fallback lookup resolved; respondWith settles with
\* its result, a cached response or undefined.
FallbackResolved(i) ==
    /\ fetches[i].stage = "fallback"
    /\ LET cachedResponse == Match(cacheNames, entries, OFFLINE_URL)
       IN fetches' = [fetches EXCEPT ![i] =
            [@ EXCEPT !.stage = "responded",
                      !.response = IF cachedResponse # Undefined
                                     THEN CachedResponse(cachedResponse)
                                     ELSE UndefinedResponse]]
    /\ UNCHANGED <<lifecycleVars, cacheVars, nFetches>>

\* fetch, lines 73-75: caches.open(CACHE_NAME) resolved, cache.put is called.
PutOpened(i) ==
    /\ fetches[i].put = "opening"
    /\ cacheNames' = Open(cacheNames, CACHE_NAME)
    /\ fetches' = [fetches EXCEPT ![i] = [@ EXCEPT !.put = "writing"]]
    /\ UNCHANGED <<lifecycleVars, entries, nFetches>>

\* fetch, line 75: cache.put(event.request, responseClone) completed.
PutResolved(i) ==
    /\ fetches[i].put = "writing"
    /\ entries' = [entries EXCEPT ![CACHE_NAME] = @ \cup {fetches[i].request.url}]
    /\ fetches' = [fetches EXCEPT ![i] = [@ EXCEPT !.put = "done"]]
    /\ UNCHANGED <<lifecycleVars, cacheNames, nFetches>>

\* What the origin's cache storage holds when the worker is first installed:
\* nothing, or stores an earlier version of the worker left behind.
PriorContents == { {}, {Url(Origin, <<"/old.js">>)}, {UploadUrl} }

InitWorker ==
    /\ InitController
    /\ sizes = [Vw |-> IdealWidth, Vh |-> IdealHeight, Cw |-> ellipseWidth, Ch |-> ellipseHeight]
    /\ crop = NoCrop
    /\ swState = "parsed"
    /\ cacheNames \in SUBSET CacheNames
    /\ entries \in [CacheNames -> PriorContents]
    /\ \A n \in CacheNames \ cacheNames : entries[n] = {}
    /\ keysSeen = {}
    /\ pendingDeletes = {}
    /\ skipWaitingCalls = 0
    /\ fetches = [i \in FetchIds |-> NoFetch]
    /\ nFetches = 0

NextWorker ==
    \/ InstallEvent /\ UNCHANGED <<controllerVars, geometryVars>>
    \/ InstallOpened /\ UNCHANGED <<controllerVars, geometryVars>>
    \/ \E fetched \in SUBSET STATIC_CACHE : AddAllSettled(fetched) /\ UNCHANGED <<controllerVars, geometryVars>>
    \/ SkipWaiting /\ UNCHANGED <<controllerVars, geometryVars>>
    \/ ActivateEvent /\ UNCHANGED <<controllerVars, geometryVars>>
    \/ KeysResolved /\ UNCHANGED <<controllerVars, geometryVars>>
    \/ \E n \in CacheNames : DeleteResolved(n) /\ UNCHANGED <<controllerVars, geometryVars>>
    \/ ClientsClaim /\ UNCHANGED <<controllerVars, geometryVars>>
    \/ \E i \in FetchIds, request \in Requests : FetchEvent(i, request) /\ UNCHANGED <<controllerVars, geometryVars>>
    \/ \E i \in FetchIds : MatchResolved(i) /\ UNCHANGED <<controllerVars, geometryVars>>
    \/ \E i \in FetchIds, status \in Statuses : NetResolved(i, status) /\ UNCHANGED <<controllerVars, geometryVars>>
    \/ \E i \in FetchIds : NetRejected(i) /\ UNCHANGED <<controllerVars, geometryVars>>
    \/ \E i \in FetchIds : FallbackResolved(i) /\ UNCHANGED <<controllerVars, geometryVars>>
    \/ \E i \in FetchIds : PutOpened(i) /\ UNCHANGED <<controllerVars, geometryVars>>
    \/ \E i \in FetchIds : PutResolved(i) /\ UNCHANGED <<controllerVars, geometryVars>>

SpecWorker == InitWorker /\ [][NextWorker]_vars

\* ------------------------------------------------------------------ claims

\* C1: in every reachable state at most one media stream has live tracks.
C1_AtMostOneLiveStream == Cardinality(liveTracks) <= 1

\* C2: at every getUserMedia call, the stream that was current when the
\* handler began has no live track left and currentStream has been cleared.
C2_StopBeforeRequest ==
    issue.req # Null => (issue.cur = Null /\ issue.held \notin issue.live)

\* A switch found a stream current, and has issued its request.
C2_Witness == issue.req # Null /\ issue.held # Null /\ requests[issue.req] = "pending"

\* A visible view owns url u: one of its handlers will revoke it.
Owned(u) ==
    \/ analysis.visible /\ u \in {analysis.close, analysis.retry}
    \/ preview.visible /\ preview.url = u

\* C3: every object URL created for a view is revoked once no visible view owns it.
C3_NoLeakedUrl == \A u \in 1..nUrls : revoked[u] >= 1 \/ Owned(u)

\* C4: no object URL (result view, preview view, text report) is revoked a
\* second time.
C4_RevokedAtMostOnce ==
    /\ \A u \in UrlIds : revoked[u] <= 1
    /\ reportUrl.revoked <= 1

\* Blob b's capture ends in this step: its toBlob callback or its upload was
\* outstanding, and neither is afterwards.
Finishes(b) ==
    /\ b \in toBlob \cup inFlight
    /\ b \notin toBlob' \cup inFlight'

\* The full result view of blob b, with all its handlers.
FullView(v, b) == v.visible /\ v.blob = b /\ v.close # Null /\ v.retry # Null /\ v.save

\* C5: a capture that produced a blob and does not end in the full result
\* view ends with the preview view showing that blob.
C5_FailureEndsInPreview ==
    [][\A b \in BlobIds :
         (Finishes(b) /\ ~FullView(analysis', b))
             => (preview'.visible /\ preview'.blob = b)]_vars

\* C6: a capture click while the video has no native size alerts 'camera not
\* ready' and changes nothing else.
C6_NotReadyAborts ==
    [][(capturePhoto /\ ~(videoWidth # 0 /\ videoHeight # 0))
         => /\ notice' = NotReadyNotice
            /\ UNCHANGED <<cameraVars, videoVars, canvas, captureVars, apiVars,
                           uploadVars, urlVars, viewVars>>]_vars

\* The notice of the aborted capture is up, and nothing was started.
C6_Witness ==
    /\ notice = NotReadyNotice
    /\ videoWidth = 0
    /\ ~captureBtnDisabled
    /\ loading = "hidden"
    /\ nCaptures = 0

\* C7: when the toBlob callback of blob b runs with apiUrl unset, no POST is
\* issued and the 'no API' notice is shown; with apiUrl set, the first and only
\* POST for b is issued; POSTs are issued nowhere else.
C7_UploadNeedsEndpoint ==
    [][/\ \A b \in BlobIds :
            (b \in toBlob /\ b \notin toBlob')
                => IF apiUrl = Null
                     THEN /\ posts' = posts
                          /\ inFlight' = inFlight
                          /\ notice' = NoApiNotice
                     ELSE /\ posts[b] = 0
                          /\ posts' = [posts EXCEPT ![b] = 1]
                          /\ inFlight' = inFlight \cup {b}
       /\ \A b \in BlobIds :
            (posts'[b] # posts[b] \/ (b \in inFlight' /\ b \notin inFlight))
                => (b \in toBlob /\ b \notin toBlob')]_vars

\* The first blob met no endpoint and was never posted; the second one is
\* being posted.
C7_Witness ==
    /\ nCaptures = 2
    /\ posts[1] = 0
    /\ posts[2] = 1
    /\ 2 \in inFlight

\* C8: a response with a non-success status ends with a notice carrying the
\* erro field of a JSON body that has a non-empty one, the serialized JSON of
\* any other JSON body, or the raw text; the preview shows the blob and the
\* result view is left as it was.
C8_HttpFailure ==
    [][\A b \in BlobIds, o \in Outcomes :
         (UploadComplete(b, o) /\ o.net = "ok" /\ ~o.ok)
            => /\ notice'.kind = "analysisHttp"
               /\ notice'.detail = CASE o.body = "jsonErro" -> "erro"
                                     [] o.body = "jsonErroEmpty" -> "serialized"
                                     [] o.body = "jsonNoErro" -> "serialized"
                                     [] o.body = "text" -> "raw"
               /\ preview'.visible
               /\ preview'.blob = b
               /\ analysis' = analysis]_vars

\* The notice of a non-success response shows the erro field, over the preview
\* of the blob.
C8_Witness ==
    /\ notice = [kind |-> "analysisHttp", detail |-> "erro"]
    /\ preview.visible
    /\ preview.blob = nCaptures
    /\ analysis.blob # nCaptures
    /\ inFlight = {}

C10_OneCaptureAtATime ==
    /\ (toBlob \cup inFlight) # {} => captureBtnDisabled
    /\ Cardinality(toBlob \cup inFlight) <= 1
    /\ Cardinality(inFlight) <= 1

\* An upload is in flight and the control is disabled.
C10_Witness == inFlight # {} /\ captureBtnDisabled /\ loading = "analyze"

\* C11: every blob is serialized from a canvas of exactly 307x407, whatever
\* setupCanvas did before the capture or does while the capture is outstanding.
C11_BlobSize ==
    \A b \in BlobIds : b <= nCaptures => blobSize[b] = <<307, 407>>

\* setupCanvas ran (800x1000) while a capture was outstanding.
C11_Witness ==
    \E b \in toBlob \cup inFlight :
        /\ canvas.w = SetupCanvasWidth
        /\ canvas.h = SetupCanvasHeight
        /\ blobSize[b] = <<307, 407>>

\* C13: one health GET is issued and no more; when it settles, apiUrl becomes
\* the origin and the indicator shows connected with the origin exactly when
\* the response is a success whose JSON body has status "online"; otherwise
\* apiUrl stays unset and the indicator shows not-found.  Nothing else sets
\* apiUrl or the indicator.
C13_Discovery ==
    [][/\ healthGets = 1 /\ healthGets' = 1
       /\ \A o \in HealthOutcomes :
            HealthComplete(o)
                => IF o.net = "ok" /\ o.ok /\ o.body = "online"
                     THEN /\ apiUrl' = Origin
                          /\ apiStatus' = [shown |-> "connected", url |-> Origin]
                     ELSE /\ apiUrl' = Null
                          /\ apiStatus' = [shown |-> "notFound", url |-> Null]
       /\ (apiUrl' # apiUrl \/ apiStatus' # apiStatus)
            => (health = "pending" /\ health' = "done")]_vars

\* The health check came back online: the endpoint is the origin and the
\* indicator says so.
C13_Witness ==
    /\ health = "done"
    /\ apiUrl = Origin
    /\ apiStatus = [shown |-> "connected", url |-> Origin]

C14_OnlyCurrentStore == swState = "activated" => cacheNames = {CACHE_NAME}

\* A stale store existed when activate read the keys, and a fetch has written
\* to the cache since.
C14_Witness ==
    /\ swState = "activated"
    /\ "face-capture-v1" \in keysSeen
    /\ \E i \in FetchIds : fetches[i].put = "done"
    /\ cacheNames = {CACHE_NAME}

\* C15: a GET of the upload path is never answered from a cache store and its
\* response is never written to one, whatever the stores hold; the install
\* list does not name it either.
C15_UploadNeverCached ==
    [][/\ UploadUrl \notin STATIC_CACHE
       /\ \A i \in FetchIds :
            fetches'[i].request = Request("GET", UploadUrl)
                => /\ fetches'[i].stage = "passed"
                   /\ ~fetches'[i].respondWith
                   /\ fetches'[i].response = NoResponse
                   /\ fetches'[i].put = "none"
       /\ \A n \in CacheNames : UploadUrl \in entries'[n] => UploadUrl \in entries[n]]_vars

\* The upload path is requested with GET while a store holds an entry for it.
C15_Witness ==
    \E i \in FetchIds :
        /\ fetches[i].request = Request("GET", UploadUrl)
        /\ fetches[i].stage = "passed"
        /\ UploadUrl \in entries[CACHE_NAME]

\* C16: the listener intercepts a request exactly when it is GET, same-origin
\* and not for the upload endpoint path; every other request passes through
\* with no respondWith, no lookup and no write, the stores unchanged.
C16_InterceptExactly ==
    [][\A i \in FetchIds, request \in Requests :
         FetchEvent(i, request)
            => /\ fetches'[i].respondWith
                    <=> /\ request.method = "GET"
                        /\ request.url.origin = Origin
                        /\ request.url.text # UploadUrl.text
               /\ ~fetches'[i].respondWith
                    => /\ fetches'[i].stage = "passed"
                       /\ fetches'[i].net = 0
                       /\ fetches'[i].put = "none"
                       /\ UNCHANGED cacheVars]_vars

\* C17: an intercepted request with a matching cache entry gets the cached
\* response, and no network fetch is issued for it.
C17_CacheFirst ==
    [][\A i \in FetchIds :
         /\ (MatchResolved(i)
               /\ \E n \in cacheNames : fetches[i].request.url \in entries[n])
            => /\ fetches'[i].stage = "responded"
               /\ fetches'[i].response = CachedResponse(fetches[i].request.url)
               /\ fetches'[i].net = 0
         /\ (fetches'[i].stage = "responded" /\ fetches'[i].net = 0)
            => fetches'[i].response = CachedResponse(fetches'[i].request.url)]_vars

\* The health GET answered from the entry an earlier health GET stored.
C17_Witness ==
    \E i \in FetchIds :
        /\ fetches[i].request.url = HealthUrl
        /\ fetches[i].response = CachedResponse(HealthUrl)
        /\ fetches[i].net = 0

\* C18: when an intercepted request missed the cache and the caller has the
\* network response: for a success status the copy is already in the current
\* store, for any other status nothing is stored.
C18_WriteThrough ==
    \A i \in FetchIds :
        (fetches[i].stage = "responded" /\ fetches[i].response.from = "network")
            => IF fetches[i].response.status >= 200 /\ fetches[i].response.status < 300
                 THEN fetches[i].request.url \in entries[CACHE_NAME]
                 ELSE fetches[i].put = "none"

\* C19: an intercepted request that missed the cache and whose network fetch
\* failed is answered with the cached /index.html; no response is undefined.
C19_OfflineFallback ==
    [][\A i \in FetchIds :
         /\ FallbackResolved(i)
            => /\ fetches[i].net = 1
               /\ fetches'[i].stage = "responded"
               /\ fetches'[i].response = CachedResponse(IndexUrl)
         /\ fetches'[i].response # UndefinedResponse]_vars

C19_Witness ==
    \E i \in FetchIds :
        /\ fetches[i].request.url = HealthUrl
        /\ fetches[i].net = 1
        /\ fetches[i].stage = "responded"
        /\ fetches[i].response = CachedResponse(IndexUrl)

\* C20: install succeeds exactly when addAll fetched the whole list. On
\* success the current store holds every listed asset and skipWaiting is
\* called only then; on failure nothing of the batch is stored, skipWaiting is
\* not called and the worker is discarded.
C20_InstallAtomic ==
    [][/\ \A fetched \in SUBSET STATIC_CACHE :
            AddAllSettled(fetched)
                => IF fetched = STATIC_CACHE
                     THEN /\ swState' = "populated"
                          /\ STATIC_CACHE \subseteq entries'[CACHE_NAME]
                     ELSE /\ swState' = "redundant"
                          /\ entries' = entries
       /\ skipWaitingCalls' # skipWaitingCalls
            => /\ swState = "populated"
               /\ STATIC_CACHE \subseteq entries[CACHE_NAME]
       /\ swState' = "redundant" => skipWaitingCalls' = 0
       /\ swState' \in {"installed", "keys", "deleting", "activated"}
            => /\ skipWaitingCalls' = 1
               /\ STATIC_CACHE \subseteq entries'[CACHE_NAME]]_vars

\* A failed install: the store was opened, none of the list is in it, and
\* skipWaiting was not called.
C20_Witness ==
    /\ swState = "redundant"
    /\ CACHE_NAME \in cacheNames
    /\ entries[CACHE_NAME] \cap STATIC_CACHE = {}
    /\ skipWaitingCalls = 0


\* C21: every error of the taxonomy is handled in the step where it arises
\* and that step shows the user a notice about it: a rejected getUserMedia, a
\* capture before the video has a size, an upload without endpoint, a failed
\* upload, and a failure while the result view is built.
C21_ErrorsNoticed ==
    [][/\ \A r \in RequestIds : GumReject(r) => notice' = CameraNotice
       /\ (capturePhoto /\ ~VideoReady(videoWidth, videoHeight))
            => notice' = NotReadyNotice
       /\ \A b \in BlobIds :
            (analyzePhoto(b) /\ ~HasEndpoint(apiUrl)) => notice' = NoApiNotice
       /\ \A b \in BlobIds, o \in Outcomes :
            UploadComplete(b, o)
                => IF UploadError(o).thrown
                     THEN notice'.kind \in {"analysis", "analysisHttp"}
                     ELSE o.render # "ok" => notice'.kind = "render"]_vars

\* C22: when a getUserMedia request fails the user is notified, the step
\* issues no further request, and the controller is left with no current
\* stream and no live track.
C22_FailedRequest ==
    [][\A r \in RequestIds :
         GumReject(r)
            => /\ notice' = CameraNotice
               /\ requests' = [requests EXCEPT ![r] = "rejected"]
               /\ currentStream' = Null
               /\ liveTracks' = {}]_vars

\* C24: whenever a stream is current and no getUserMedia request is pending,
\* that stream was requested with the facing mode the controller's field
\* holds; a failing request leaves the (already flipped) field as it is.
C24_FacingMatches ==
    [][/\ (currentStream' # Null /\ \A r \in RequestIds : requests'[r] # "pending")
            => reqFacing'[currentStream'] = facingMode'
       /\ \A r \in RequestIds :
            GumReject(r)
                => LET last == CHOOSE q \in RequestIds :
                                  /\ requests[q] # "none"
                                  /\ \A p \in RequestIds : p > q => requests[p] = "none"
                   IN facingMode' = reqFacing[last] /\ facingMode' = facingMode]_vars


InsideVisible(f, r) ==
    /\ QLe(f.offsetX, r.sx)
    /\ QLe(QAdd(r.sx, r.sWidth), QAdd(f.offsetX, f.drawWidth))
    /\ QLe(f.offsetY, r.sy)
    /\ QLe(QAdd(r.sy, r.sHeight), QAdd(f.offsetY, f.drawHeight))

\* The source rectangle lies inside the video frame.
InsideFrame(r, Vw, Vh) ==
    /\ QLe(QInt(0), r.sx) /\ QLe(QAdd(r.sx, r.sWidth), QInt(Vw))
    /\ QLe(QInt(0), r.sy) /\ QLe(QAdd(r.sy, r.sHeight), QInt(Vh))

C23_ControlReenabled ==
    /\ (captureBtnDisabled /\ loading # "hidden")
          ~> (~captureBtnDisabled /\ loading = "hidden")
    /\ [][(captureBtnDisabled /\ inFlight # {} /\ ~captureBtnDisabled')
            => \E b \in inFlight, o \in Outcomes : UploadComplete(b, o)]_vars

\* The second capture of a run went through its upload, whose result view
\* failed to build, and the control is enabled again with the indicator hidden.
C23_Witness ==
    /\ nCaptures = 2
    /\ posts[2] = 1
    /\ toBlob = {} /\ inFlight = {}
    /\ preview.visible /\ preview.blob = 2
    /\ analysis.visible /\ analysis.retry = Null
    /\ ~captureBtnDisabled /\ loading = "hidden"

====
